---- MODULE Spec2Model ----
(***************************************************************************)
(* One account's session of nuqql-matrixd-nio: the supervisor loop of      *)
(* BackendClient.start (client.py), the connection of MatrixClient         *)
(* (matrix.py) and the command queue that the front-end thread fills.      *)
(*                                                                         *)
(* Two threads act on the state.  The front-end thread calls               *)
(* enqueue_command and requests the stop of the session; the session       *)
(* thread runs start, and everything start awaits.  The calls between the  *)
(* files are linked by name: BackendClient.connect calls                   *)
(* MatrixClient.connect, and "self.client.sync_token" of client.py:90 is   *)
(* the attribute sync_token of MatrixClient.                               *)
(*                                                                         *)
(* Spec is the session as constructed (status offline).  MatrixClient.     *)
(* connect returns only after sync_forever has ended, with the status      *)
(* offline again, so from Init the loop never takes the branch of          *)
(* client.py:85-91 (LoopNeverTicks).  SpecQueue is that branch on its own: *)
(* the loop at its top with the status online, handle_queue called once    *)
(* per iteration.                                                          *)
(*                                                                         *)
(* Tokens are numbers, 0 is the empty string.                              *)
(***************************************************************************)
EXTENDS Integers, Sequences, FiniteSets, TLC

\* bounds of the model
MaxCmds == 3
MaxToken == 2
MaxStops == 2
MaxJoins == 2
MaxEvents == 2

\* commands that name a room in one copy of the queue
MaxChats == 2

\* successful logins counted
MaxLogins == 2

VARIABLES
    running,        \* the Event "running" handed to start
    status,         \* MatrixClient.status
    queue,          \* BackendClient.queue
    lock,           \* holder of BackendClient.lock: "none", "front", "session"
    fpc,            \* front-end thread inside enqueue_command or stop
    fcmd,           \* the (cmd, params) of the enqueue_command call in progress
    pc,             \* session thread: position in start and what it awaits
    batch,          \* handle_queue: the copy "queue", what is left of it
    roomIdx,        \* send_message: position of the for loop over the rooms
    sync_token,     \* local sync_token of start
    tokenFile,      \* content of the sync_token<aid> file
    mc_sync_token,  \* MatrixClient.sync_token
    next_batch,     \* AsyncClient.next_batch
    credFile,       \* the credentials file exists
    buddies,        \* the account's buddy list
    exc,            \* the exception that ended start, else "none"
    \* history
    enqLog,         \* the tuples in the order they were appended to the queue
    batches,        \* the non-empty copies handle_queue took, in order
    execLog,        \* the commands whose execution started, in order
    netLog,         \* the room_send calls made, with their outcome
    inbox,          \* what account.receive_msg was given
    stopCalls,      \* the calls of stop made so far
    sinceConnect,   \* "returned": connect returned; "waited": slept since
    syncEnded,      \* sync_forever has ended, connect not yet called again
    \* join_room, called by _chat_join
    room_name,      \* join_room: the local room_name, "" outside the call
    error,          \* _chat_join: the local error, what join_room returned
    roomCalls,      \* history: the join and room_create calls made
    \* the event callbacks
    settings,       \* BackendClient.settings
    filter_own,     \* account.config.get_filter_own()
    events,         \* history: the events the callbacks were called with
    \* update_sync_token and load_sync_token called one after the other
    trip,           \* the arguments and what the two calls did and returned
    \* BackendServer
    connections,    \* BackendServer.connections: the account ids, in dict order
    session,        \* per account: its task, its running flag, its token file
    cb,             \* the callback of BackendServer that is awaiting something
    last,           \* history: the callback that ended last
    \* MatrixClient.connect
    logins          \* history, kept in SpecLogin: the successful login calls

vars == << running, status, queue, lock, fpc, fcmd, pc, batch, roomIdx,
           sync_token, tokenFile, mc_sync_token, next_batch, credFile, buddies,
           exc, enqLog, batches, execLog, netLog, inbox, stopCalls,
           sinceConnect, syncEnded, room_name, error, roomCalls, settings,
           filter_own, events, trip, connections, session, cb, last,
           logins >>

queueVars == << queue, lock, fpc, fcmd, enqLog >>
tokenVars == << sync_token, tokenFile, mc_sync_token, next_batch >>
histVars  == << batches, execLog, netLog, inbox, stopCalls >>
roomVars  == << room_name, error, roomCalls >>
eventVars == << settings, filter_own, events >>
serverVars == << connections, session, cb, last >>

\* the variables of one BackendClient and its MatrixClient
clientVars == << running, status, queueVars, pc, batch, roomIdx, tokenVars,
                credFile, buddies, exc, histVars, sinceConnect, syncEnded >>

\* what the loop of start, connect and the queue leave alone
extVars == << roomVars, eventVars, trip, serverVars, logins >>

\* what join_room and what the event callbacks leave alone
outsideRooms  == << eventVars, trip, serverVars, logins >>
outsideEvents == << roomVars, trip, serverVars, logins >>
outsideTrip   == << roomVars, eventVars, serverVars, logins >>
outsideServer == << clientVars, roomVars, eventVars, trip, logins >>

----------------------------------------------------------------------------
\* the world of the account

Tokens == 0 .. MaxToken

\* the joined rooms (AsyncClient.rooms) and the pending invites, in dict order
Rooms == << [room_id |-> "!a:hs", display_name |-> "Team"],
            [room_id |-> "!b:hs", display_name |-> "Ops"],
            [room_id |-> "!c:hs", display_name |-> "Team"] >>

Invites == << [room_id |-> "!i:hs", display_name |-> "Party"] >>

\* what the front-end sends: commands of handle_queue with their parameters
StatusArgs == {"offline", "online", "away"}

Dests == {"Team"}

Commands ==
    [cmd : {"SEND_MESSAGE"}, arg : Dests]
        \cup [cmd : {"SET_STATUS"}, arg : StatusArgs]
        \cup [cmd : {"GET_STATUS"}, arg : {""}]

NoCmd == [cmd |-> "", arg |-> ""]

----------------------------------------------------------------------------
\* helpers on sequences

RECURSIVE Concat(_)
Concat(ss) == IF ss = << >> THEN << >> ELSE Head(ss) \o Concat(Tail(ss))

RECURSIVE Reverse(_)
Reverse(s) == IF s = << >> THEN << >> ELSE Append(Reverse(Tail(s)), Head(s))

IsPrefix(s, t) == Len(s) <= Len(t) /\ SubSeq(t, 1, Len(s)) = s

Ids(s) == [i \in DOMAIN s |-> s[i].id]

----------------------------------------------------------------------------
\* construction

\* no join_room call is in progress and none was made
NoJoin == room_name = "" /\ error = "" /\ roomCalls = << >>

\* self.settings = SimpleNamespace(membership_message_msg=True,
\* membership_user_msg=True); no event was delivered
NoEvent ==
    /\ settings = [membership_user_msg |-> TRUE,
                   membership_message_msg |-> TRUE]
    /\ filter_own = FALSE
    /\ events = << >>

\* update_sync_token(old, new) not called yet; wrote and read are "none"
\* until the file is opened, then "ok", or "failed" for an OSError
NoTrip(old, new) ==
    trip = [step |-> "start", old |-> old, new |-> new, ret |-> 0,
            wrote |-> "none", read |-> "none", loaded |-> 0]

\* the accounts of the framework: 1 and 2 of type matrix, 3 of another type
Accounts == {1, 2, 3}

MatrixAccounts == {1, 2}

\* no callback of BackendServer is awaiting anything, none has ended
NoCall == [name |-> "", aid |-> 0, pc |-> "", i |-> 0, before |-> << >>]

NoLast == [name |-> "", aid |-> 0, had |-> FALSE, handed |-> FALSE,
           result |-> "", before |-> << >>, after |-> << >>]

\* BackendServer.__init__: self.connections = {}; no client, no task
NoServer ==
    /\ connections = << >>
    /\ session = [a \in Accounts |-> [task |-> "none", running |-> TRUE,
                                      token |-> FALSE, lost |-> FALSE]]
    /\ cb = NoCall
    /\ last = NoLast

\* login was not called yet
NoLogin == logins = 0

\* the variables of extVars at construction
ExtInit == NoJoin /\ NoEvent /\ NoTrip(0, 0) /\ NoServer /\ NoLogin

Init ==
    /\ running = TRUE
    /\ status = "offline"
    /\ queue = << >>
    /\ lock = "none"
    /\ fpc = "idle"
    /\ fcmd = NoCmd
    /\ pc = "loop_top"
    /\ batch = << >>
    /\ roomIdx = 0
    /\ sync_token = 0
    /\ tokenFile \in Tokens
    /\ mc_sync_token = tokenFile
    /\ next_batch = 0
    /\ credFile \in BOOLEAN
    /\ buddies = << >>
    /\ exc = "none"
    /\ enqLog = << >>
    /\ batches = << >>
    /\ execLog = << >>
    /\ netLog = << >>
    /\ inbox = << >>
    /\ stopCalls = 0
    /\ sinceConnect = "none"
    /\ syncEnded = FALSE
    /\ ExtInit

----------------------------------------------------------------------------
\* BackendClient.lock: acquire() returns only while nobody holds the lock

LockFreeNoWait == TRUE

LockFree == lock = "none"

----------------------------------------------------------------------------
\* the front-end thread

\* enqueue_command(cmd, params): self.lock.acquire()
EnqAcquire(c) ==
    /\ fpc = "idle"
    /\ Len(enqLog) < MaxCmds
    /\ LockFree
    /\ lock' = "front"
    /\ fcmd' = c
    /\ fpc' = "acquired"
    /\ UNCHANGED << running, status, queue, pc, batch, roomIdx, tokenVars,
                    credFile, buddies, exc, enqLog, histVars, sinceConnect,
                    syncEnded >>
    /\ UNCHANGED extVars

\* self.queue.append((cmd, params))
EnqAppend ==
    /\ fpc = "acquired"
    /\ queue' = Append(queue, [id |-> Len(enqLog) + 1, cmd |-> fcmd.cmd,
                               arg |-> fcmd.arg])
    /\ enqLog' = Append(enqLog, [id |-> Len(enqLog) + 1, cmd |-> fcmd.cmd,
                                 arg |-> fcmd.arg])
    /\ fpc' = "appended"
    /\ UNCHANGED << running, status, lock, fcmd, pc, batch, roomIdx, tokenVars,
                    credFile, buddies, exc, histVars, sinceConnect, syncEnded >>
    /\ UNCHANGED extVars

\* self.lock.release()
EnqRelease ==
    /\ fpc = "appended"
    /\ lock' = "none"
    /\ fcmd' = NoCmd
    /\ fpc' = "idle"
    /\ UNCHANGED << running, status, queue, pc, batch, roomIdx, tokenVars,
                    credFile, buddies, exc, enqLog, histVars, sinceConnect,
                    syncEnded >>
    /\ UNCHANGED extVars

FlagAfterStopToggled(r) == ~r

\* stop sets the cancellation flag: the Event "running" is cleared
FlagAfterStop(r) == FALSE

\* BackendClient.stop, as stop_task, del_account and based_interrupt await it:
\* the flag is set, then the termination of the loop is awaited
StopRequest ==
    /\ fpc = "idle"
    /\ stopCalls < MaxStops
    /\ running' = FlagAfterStop(running)
    /\ stopCalls' = stopCalls + 1
    /\ fpc' = "stop_wait"
    /\ UNCHANGED << status, queue, lock, fcmd, enqLog, pc, batch, roomIdx,
                    tokenVars, credFile, buddies, exc, batches, execLog,
                    netLog, inbox, sinceConnect, syncEnded >>
    /\ UNCHANGED extVars

\* the loop has ended: the session is told to close (MatrixClient.stop, which
\* does nothing) and stop returns
StopReturn ==
    /\ fpc = "stop_wait"
    /\ pc \in {"done", "raised"}
    /\ fpc' = "idle"
    /\ UNCHANGED << running, status, queue, lock, fcmd, enqLog, pc, batch,
                    roomIdx, tokenVars, credFile, buddies, exc, histVars,
                    sinceConnect, syncEnded >>
    /\ UNCHANGED extVars

----------------------------------------------------------------------------
\* the token file of BackendClient

update_sync_token_always(old, new, file, written) ==
    IF written THEN [ret |-> new, file |-> new, wrote |-> "ok"]
    ELSE [ret |-> old, file |-> file, wrote |-> "failed"]

\* update_sync_token(old, new) with the token file holding file: what it
\* returns, the file after it, and whether it opened the file for writing
update_sync_token(old, new, file, written) ==
    IF old = new THEN [ret |-> old, file |-> file, wrote |-> "none"]
    ELSE IF written THEN [ret |-> new, file |-> new, wrote |-> "ok"]
    ELSE [ret |-> old, file |-> file, wrote |-> "failed"]

\* load_sync_token with the token file holding file: token_file.readline()
\* of a file that holds one token and no newline, "" for an OSError
load_sync_token(file, readable) == IF readable THEN file ELSE 0

----------------------------------------------------------------------------
\* BackendClient.start: the loop

\* while running.is_set(): if self.client.status == "offline": ...
LoopTop ==
    /\ pc = "loop_top"
    /\ pc' = IF ~running THEN "stop"
             ELSE IF status = "offline" THEN "load_token"
             ELSE "handle_queue"
    /\ UNCHANGED << running, status, queueVars, batch, roomIdx, tokenVars,
                    credFile, buddies, exc, histVars, sinceConnect, syncEnded >>
    /\ UNCHANGED extVars

\* load_sync_token: the first line of the token file, "" when the read fails
LoadedTokens ==
    {load_sync_token(tokenFile, readable) : readable \in BOOLEAN}

\* sync_token = self.load_sync_token(), then connect is called
LoadSyncToken ==
    /\ pc = "load_token"
    /\ \E t \in LoadedTokens : sync_token' = t
    /\ pc' = "connect"
    /\ UNCHANGED << running, status, queueVars, batch, roomIdx, tokenFile,
                    mc_sync_token, next_batch, credFile, buddies, exc,
                    histVars, sinceConnect, syncEnded >>
    /\ UNCHANGED extVars

\* self.client.stop() after the loop: MatrixClient.stop does nothing
ClientStop ==
    /\ pc = "stop"
    /\ pc' = "done"
    /\ UNCHANGED << running, status, queueVars, batch, roomIdx, tokenVars,
                    credFile, buddies, exc, histVars, sinceConnect, syncEnded >>
    /\ UNCHANGED extVars

----------------------------------------------------------------------------
\* MatrixClient.connect, awaited by start through BackendClient.connect

\* get_credentials: a saved access token is restored, else login is called
ConnectBegin ==
    /\ pc = "connect"
    /\ IF credFile
       THEN status' = "online" /\ pc' = "sync"
       ELSE status' = status /\ pc' = "login"
    /\ syncEnded' = FALSE
    /\ UNCHANGED << running, queueVars, batch, roomIdx, tokenVars, credFile,
                    buddies, exc, histVars, sinceConnect >>
    /\ UNCHANGED extVars

SyncIfOnlineAlways(st) == "sync"

\* if self.status == "online": the catch-up sync, else "return self.status"
SyncIfOnline(st) == IF st = "online" THEN "sync" ELSE "loop_top"

\* what "await self.client.login(...)" ends with
LoginOutcomes == {"LoginResponse", "LoginError", "exception"}

\* resp = await self.client.login(password, ...)
LoginStep(outcome) ==
    /\ pc = "login"
    /\ CASE outcome = "LoginResponse" ->
                /\ status' = "online"
                /\ pc' = "save_credentials"
                /\ UNCHANGED << exc, sinceConnect >>
         [] outcome = "LoginError" ->
                \* no LoginResponse: status stays; "if self.status == online"
                /\ pc' = SyncIfOnline(status)
                /\ sinceConnect' = IF SyncIfOnline(status) = "sync"
                                   THEN sinceConnect ELSE "returned"
                /\ UNCHANGED << status, exc >>
         [] outcome = "exception" ->
                \* nothing catches it: it leaves connect and start
                /\ pc' = "raised"
                /\ exc' = "login"
                /\ UNCHANGED << status, sinceConnect >>
    /\ UNCHANGED << running, queueVars, batch, roomIdx, tokenVars, credFile,
                    buddies, histVars, syncEnded >>
    /\ UNCHANGED << roomVars, eventVars, trip, serverVars >>

Login(outcome) == LoginStep(outcome) /\ UNCHANGED logins

\* the same call, with the logins that returned a LoginResponse counted
CountedLogin(outcome) ==
    /\ LoginStep(outcome)
    /\ logins' = IF outcome = "LoginResponse" /\ logins < MaxLogins
                 THEN logins + 1 ELSE logins

SavedCredentialsLost(written, file) == file

\* the credentials file after save_credentials: written by json.dump, or as
\* it was when open(path, "w") raises
SavedCredentials(written, file) == IF written THEN TRUE ELSE file

\* save_credentials: open(path, "w") and json.dump, outside any try
SaveCredentials(written) ==
    /\ pc = "save_credentials"
    /\ credFile' = SavedCredentials(written, credFile)
    /\ IF written
       THEN pc' = "sync" /\ exc' = exc
       ELSE pc' = "raised" /\ exc' = "OSError"
    /\ UNCHANGED << running, status, queueVars, batch, roomIdx, tokenVars,
                    buddies, histVars, sinceConnect, syncEnded >>
    /\ UNCHANGED extVars

\* the next_batch of a sync response: a newer token, or the same one
NextTokens ==
    {next_batch} \cup (IF next_batch < MaxToken THEN {next_batch + 1} ELSE {})

\* await self.client.sync(timeout=30000, full_state=True, sync_filter=...)
CatchUpSync(raises) ==
    /\ pc = "sync"
    /\ IF raises
       THEN /\ pc' = "raised"
            /\ exc' = "sync"
            /\ UNCHANGED next_batch
       ELSE /\ pc' = "sync_forever"
            /\ \E t \in NextTokens : next_batch' = t
            /\ UNCHANGED exc
    /\ UNCHANGED << running, status, queueVars, batch, roomIdx, sync_token,
                    tokenFile, mc_sync_token, credFile, buddies, histVars,
                    sinceConnect, syncEnded >>
    /\ UNCHANGED extVars

\* open(sync_token_file, "w") and write(new): the file after it; an OSError
\* leaves the file as it was
WriteToken(new, written) == IF written THEN new ELSE tokenFile

\* one response inside sync_forever without a room event
SyncForeverIdle ==
    /\ pc = "sync_forever"
    /\ \E t \in NextTokens : next_batch' = t
    /\ UNCHANGED << running, status, queueVars, pc, batch, roomIdx, sync_token,
                    tokenFile, mc_sync_token, credFile, buddies, exc, histVars,
                    sinceConnect, syncEnded >>
    /\ UNCHANGED extVars

\* one response inside sync_forever with a room event: message_callback or
\* member_callback runs and calls _update_sync_token first
SyncForeverEvent ==
    /\ pc = "sync_forever"
    /\ \E t \in NextTokens :
          /\ next_batch' = t
          /\ mc_sync_token' = t
          /\ IF mc_sync_token = t
             THEN UNCHANGED tokenFile
             ELSE \E written \in BOOLEAN : tokenFile' = WriteToken(t, written)
    /\ UNCHANGED << running, status, queueVars, pc, batch, roomIdx, sync_token,
                    credFile, buddies, exc, histVars, sinceConnect, syncEnded >>
    /\ UNCHANGED extVars

\* how sync_forever ends
SyncEnds == {"return", "exception"}

StatusAfterSyncTaskKeep(kind, st) ==
    IF kind = "exception" THEN st ELSE "offline"

\* sync_task: "except Exception" logs, then self.status = "offline"
StatusAfterSyncTask(kind, st) == "offline"

\* sync_forever returns or raises: the rest of sync_task
SyncTaskEnds(kind) ==
    /\ pc = "sync_forever"
    /\ status' = StatusAfterSyncTask(kind, status)
    /\ pc' = "close"
    /\ syncEnded' = TRUE
    /\ UNCHANGED << running, queueVars, batch, roomIdx, tokenVars, credFile,
                    buddies, exc, histVars, sinceConnect >>
    /\ UNCHANGED extVars

\* await self.client.close(); return self.status; "continue" in start
Close ==
    /\ pc = "close"
    /\ pc' = "loop_top"
    /\ sinceConnect' = "returned"
    /\ UNCHANGED << running, status, queueVars, batch, roomIdx, tokenVars,
                    credFile, buddies, exc, histVars, syncEnded >>
    /\ UNCHANGED extVars

----------------------------------------------------------------------------
\* BackendClient.handle_queue, awaited by start while the status is not offline

\* self.lock.acquire()
HQAcquire ==
    /\ pc = "handle_queue"
    /\ LockFree
    /\ lock' = "session"
    /\ pc' = "hq_copy"
    /\ UNCHANGED << running, status, queue, fpc, fcmd, enqLog, batch, roomIdx,
                    tokenVars, credFile, buddies, exc, histVars, sinceConnect,
                    syncEnded >>
    /\ UNCHANGED extVars

CopyQueueReversed(q) == Reverse(q)

\* queue = self.queue[:]
CopyQueue(q) == q

HQCopy ==
    /\ pc = "hq_copy"
    /\ batch' = CopyQueue(queue)
    /\ batches' = IF queue = << >> THEN batches
                  ELSE Append(batches, CopyQueue(queue))
    /\ pc' = "hq_clear"
    /\ UNCHANGED << running, status, queueVars, roomIdx, tokenVars, credFile,
                    buddies, exc, execLog, netLog, inbox, stopCalls,
                    sinceConnect,
                    syncEnded >>
    /\ UNCHANGED extVars

\* self.queue = []
HQClear ==
    /\ pc = "hq_clear"
    /\ queue' = << >>
    /\ pc' = "hq_release"
    /\ UNCHANGED << running, status, lock, fpc, fcmd, enqLog, batch, roomIdx,
                    tokenVars, credFile, buddies, exc, histVars, sinceConnect,
                    syncEnded >>
    /\ UNCHANGED extVars

LockAfterDrainHeld(l) == l

\* handle_queue releases the lock before its for loop
LockAfterDrain(l) == "none"

\* self.lock.release()
HQRelease ==
    /\ pc = "hq_release"
    /\ lock' = LockAfterDrain(lock)
    /\ pc' = "exec"
    /\ UNCHANGED << running, status, queue, fpc, fcmd, enqLog, batch, roomIdx,
                    tokenVars, credFile, buddies, exc, histVars, sinceConnect,
                    syncEnded >>
    /\ UNCHANGED extVars

\* the entry of execLog for the command that starts now
Started(c) == [id |-> c.id, cmd |-> c.cmd, st |-> status]

SendSkippedNever(st) == FALSE

\* _send_message: if self.client.status == "offline": return
SendSkipped(st) == st = "offline"

\* for cmd, params in queue: SEND_MESSAGE, up to the first room of send_message
ExecSendMessage ==
    /\ pc = "exec"
    /\ batch # << >>
    /\ Head(batch).cmd = "SEND_MESSAGE"
    /\ execLog' = Append(execLog, Started(Head(batch)))
    /\ IF SendSkipped(status)
       THEN /\ batch' = Tail(batch)
            /\ UNCHANGED << pc, roomIdx >>
       ELSE /\ pc' = "send"
            /\ roomIdx' = 1
            /\ UNCHANGED batch
    /\ UNCHANGED << running, status, queueVars, tokenVars, credFile, buddies,
                    exc, batches, netLog, inbox, stopCalls, sinceConnect,
                    syncEnded >>
    /\ UNCHANGED extVars

\* what "await self.client.room_send(...)" ends with
SendOutcomes == {"ok", "LocalProtocolError"}

StatusAfterSendKeep(res, st) == st

\* except LocalProtocolError: self.status = "offline"
StatusAfterSend(res, st) == IF res = "LocalProtocolError" THEN "offline" ELSE st

\* if dest_room in (room.display_name, room.room_id)
RoomMatches(dest, room) == dest \in {room.display_name, room.room_id}

\* send_message: one turn of "for room in rooms.values()"
SendRoom ==
    /\ pc = "send"
    /\ roomIdx <= Len(Rooms)
    /\ IF RoomMatches(Head(batch).arg, Rooms[roomIdx])
       THEN \E res \in SendOutcomes :
               /\ netLog' = Append(netLog, [id |-> Head(batch).id,
                                            room_id |-> Rooms[roomIdx].room_id,
                                            res |-> res])
               /\ status' = StatusAfterSend(res, status)
       ELSE UNCHANGED << netLog, status >>
    /\ roomIdx' = roomIdx + 1
    /\ UNCHANGED << running, queueVars, pc, batch, tokenVars, credFile, buddies,
                    exc, batches, execLog, inbox, stopCalls, sinceConnect,
                    syncEnded >>
    /\ UNCHANGED extVars

\* send_message and _send_message return
SendReturn ==
    /\ pc = "send"
    /\ roomIdx > Len(Rooms)
    /\ batch' = Tail(batch)
    /\ roomIdx' = 0
    /\ pc' = "exec"
    /\ UNCHANGED << running, status, queueVars, tokenVars, credFile, buddies,
                    exc, histVars, sinceConnect, syncEnded >>
    /\ UNCHANGED extVars

\* SET_STATUS: self.client.status = params[0]
ExecSetStatus ==
    /\ pc = "exec"
    /\ batch # << >>
    /\ Head(batch).cmd = "SET_STATUS"
    /\ execLog' = Append(execLog, Started(Head(batch)))
    /\ status' = Head(batch).arg
    /\ batch' = Tail(batch)
    /\ UNCHANGED << running, queueVars, pc, roomIdx, tokenVars, credFile,
                    buddies, exc, batches, netLog, inbox, stopCalls,
                    sinceConnect,
                    syncEnded >>
    /\ UNCHANGED extVars

\* GET_STATUS: account.receive_msg(Message.status(account, status))
ExecGetStatus ==
    /\ pc = "exec"
    /\ batch # << >>
    /\ Head(batch).cmd = "GET_STATUS"
    /\ execLog' = Append(execLog, Started(Head(batch)))
    /\ inbox' = Append(inbox, [id |-> Head(batch).id, kind |-> "status",
                               text |-> status])
    /\ batch' = Tail(batch)
    /\ UNCHANGED << running, status, queueVars, pc, roomIdx, tokenVars,
                    credFile, buddies, exc, batches, netLog, stopCalls,
                    sinceConnect,
                    syncEnded >>
    /\ UNCHANGED extVars

\* the for loop is over: handle_queue returns
HQReturn ==
    /\ pc = "exec"
    /\ batch = << >>
    /\ pc' = "update_buddies"
    /\ UNCHANGED << running, status, queueVars, batch, roomIdx, tokenVars,
                    credFile, buddies, exc, histVars, sinceConnect, syncEnded >>
    /\ UNCHANGED extVars

----------------------------------------------------------------------------
\* the rest of the iteration of start

RECURSIVE BuddiesOf(_, _)
BuddiesOf(rooms, st) ==
    IF rooms = << >> THEN << >>
    ELSE << << Head(rooms).room_id, Head(rooms).display_name, st >> >>
             \o BuddiesOf(Tail(rooms), st)

\* urllib.parse.quote: a character outside the safe set becomes %XX
escape_name(name) ==
    CASE name = "My Room" -> "My%20Room"
      [] name = "!x:hs" -> "%21x%3Ahs"
      [] OTHER -> name

\* name = escape_name(room.display_name), for every joined room
Escaped(rooms) ==
    [i \in DOMAIN rooms |->
        [room_id |-> rooms[i].room_id,
         display_name |-> escape_name(rooms[i].display_name)]]

BuddyListNoFlush(st) ==
    BuddiesOf(Escaped(Rooms), "GROUP_CHAT")
        \o BuddiesOf(Invites, "GROUP_CHAT_INVITE")

\* update_buddies: none while offline, else the rooms and the invites
BuddyList(st) ==
    IF st = "offline" THEN << >>
    ELSE BuddiesOf(Escaped(Rooms), "GROUP_CHAT")
             \o BuddiesOf(Invites, "GROUP_CHAT_INVITE")

UpdateBuddies ==
    /\ pc = "update_buddies"
    /\ buddies' = BuddyList(status)
    /\ pc' = "update_sync_token"
    /\ UNCHANGED << running, status, queueVars, batch, roomIdx, tokenVars,
                    credFile, exc, histVars, sinceConnect, syncEnded >>
    /\ UNCHANGED extVars

\* sync_token = self.update_sync_token(sync_token, self.client.sync_token)
UpdateSyncToken ==
    /\ pc = "update_sync_token"
    /\ \E written \in BOOLEAN :
          LET r == update_sync_token(sync_token, mc_sync_token, tokenFile,
                                     written)
          IN  tokenFile' = r.file /\ sync_token' = r.ret
    /\ pc' = "sleep"
    /\ UNCHANGED << running, status, queueVars, batch, roomIdx, mc_sync_token,
                    next_batch, credFile, buddies, exc, histVars, sinceConnect,
                    syncEnded >>
    /\ UNCHANGED extVars

\* await asyncio.sleep(0.1)
Sleep ==
    /\ pc = "sleep"
    /\ pc' = "loop_top"
    /\ sinceConnect' = IF sinceConnect = "returned" THEN "waited"
                       ELSE sinceConnect
    /\ UNCHANGED << running, status, queueVars, batch, roomIdx, tokenVars,
                    credFile, buddies, exc, histVars, syncEnded >>
    /\ UNCHANGED extVars

----------------------------------------------------------------------------
\* CHAT_JOIN: BackendClient._chat_join and MatrixClient.join_room

\* the chat names a CHAT_JOIN command carries, as nuqql sends them
ChatNames == {"Team", "My%20Room", "!x:hs", "%21x%3Ahs", "!nocolon", "a:b"}

\* urllib.parse.unquote: %XX becomes the character it encodes
unescape_name(name) ==
    CASE name = "My%20Room" -> "My Room"
      [] name = "%21x%3Ahs" -> "!x:hs"
      [] OTHER -> name

\* room_name.startswith("!")
StartsWithBang(name) == name \in {"!x:hs", "!nocolon"}

\* ":" in room_name
HasColon(name) == name \in {"!x:hs", "a:b"}

NotRoomIdNoBang(name) == ~StartsWithBang(name)

\* if not room_name.startswith("!") or ":" not in room_name
NotRoomId(name) == ~StartsWithBang(name) \/ ~HasColon(name)

\* for cmd, params in queue: CHAT_JOIN, _chat_join(params[0]), up to the join:
\* room_name = unescape_name(room_name)
ExecChatJoin ==
    /\ pc = "exec"
    /\ batch # << >>
    /\ Head(batch).cmd = "CHAT_JOIN"
    /\ execLog' = Append(execLog, Started(Head(batch)))
    /\ room_name' = unescape_name(Head(batch).arg)
    /\ pc' = "join"
    /\ UNCHANGED << running, status, queueVars, batch, roomIdx, tokenVars,
                    credFile, buddies, exc, batches, netLog, inbox, stopCalls,
                    sinceConnect, syncEnded, error, roomCalls >>
    /\ UNCHANGED outsideRooms

\* what "await self.client.join(room_name)" ends with
JoinOutcomes == {"JoinResponse", "JoinError"}

\* resp = await self.client.join(room_name): the fallback to create_room, or
\* the return of str(resp) or of ""
Join(resp) ==
    /\ pc = "join"
    /\ roomCalls' = Append(roomCalls, [id |-> Head(batch).id, call |-> "join",
                                       name |-> room_name, ret |-> resp])
    /\ IF resp = "JoinError"
       THEN IF NotRoomId(room_name)
            THEN pc' = "room_create" /\ UNCHANGED error
            ELSE pc' = "chat_join" /\ error' = resp
       ELSE pc' = "chat_join" /\ error' = ""
    /\ UNCHANGED << running, status, queueVars, batch, roomIdx, tokenVars,
                    credFile, buddies, exc, histVars, sinceConnect, syncEnded,
                    room_name >>
    /\ UNCHANGED outsideRooms

\* what "await self.client.room_create(name=room_name)" ends with
CreateOutcomes == {"RoomCreateResponse", "RoomCreateError"}

\* create_room: str(resp) for a RoomCreateError, else ""
CreateRoomResult(resp) == IF resp = "RoomCreateError" THEN resp ELSE ""

\* return await self.create_room(room_name)
CreateRoom(resp) ==
    /\ pc = "room_create"
    /\ roomCalls' = Append(roomCalls,
                           [id |-> Head(batch).id, call |-> "room_create",
                            name |-> room_name,
                            ret |-> CreateRoomResult(resp)])
    /\ error' = CreateRoomResult(resp)
    /\ pc' = "chat_join"
    /\ UNCHANGED << running, status, queueVars, batch, roomIdx, tokenVars,
                    credFile, buddies, exc, histVars, sinceConnect, syncEnded,
                    room_name >>
    /\ UNCHANGED outsideRooms

\* _chat_join after join_room returned: if error != "": receive_msg(error)
ChatJoinReturn ==
    /\ pc = "chat_join"
    /\ inbox' = IF error = "" THEN inbox
                ELSE Append(inbox, [id |-> Head(batch).id, kind |-> "error",
                                    text |-> error])
    /\ batch' = Tail(batch)
    /\ room_name' = ""
    /\ error' = ""
    /\ pc' = "exec"
    /\ UNCHANGED << running, status, queueVars, roomIdx, tokenVars, credFile,
                    buddies, exc, batches, execLog, netLog, stopCalls,
                    sinceConnect, syncEnded, roomCalls >>
    /\ UNCHANGED outsideRooms

----------------------------------------------------------------------------
\* CHAT_PART, CHAT_USERS and CHAT_INVITE: MatrixClient.part_room,
\* list_room_users and invite_room, and what _chat_part, _chat_users and
\* _chat_invite hand to the front-end.  A text these functions return is a
\* sequence of its parts, the empty text the empty sequence.

\* the targets the front-end names in these commands
ChatTargets == {"Team", "!b:hs", "Party", "Nowhere", "My%20Room"}

\* the user of CHAT_INVITE
InvitedId == "@bob:hs"

\* resp.members of joined_members, the same in every room
Members == << [user_id |-> "@me:hs", display_name |-> "Me"],
              [user_id |-> "@bob:hs", display_name |-> "My Room"] >>

\* unescape_name(room_name) == room.display_name or
\* unescape_name(room_name) == room.room_id
NameMatches(name, room) ==
    unescape_name(name) \in {room.display_name, room.room_id}

\* the rooms of the "for room in rooms.values()" that pass the test, in order
Matching(rooms, name) ==
    SelectSeq(rooms, LAMBDA room : NameMatches(name, room))

\* what room_leave, joined_members and room_invite end with
LeaveOutcomes == {"RoomLeaveResponse", "RoomLeaveError"}
MembersOutcomes == {"JoinedMembersResponse", "JoinedMembersError"}
InviteOutcomes == {"RoomInviteResponse", "RoomInviteError"}

\* str(resp) for the error response, "" otherwise
ErrorText(resp, err) == IF resp = err THEN << resp >> ELSE << >>

NotFound == << "NOT FOUND" >>

\* _part_room: leaves the first room that matches
part_room_in(rooms, name, resp) ==
    LET found == Matching(rooms, name)
    IN  IF found = << >> THEN [ret |-> NotFound, calls |-> << >>]
        ELSE [ret |-> ErrorText(resp, "RoomLeaveError"),
              calls |-> << [call |-> "room_leave",
                            name |-> Head(found).room_id, ret |-> resp] >>]

\* part_room: the joined rooms, then the rooms we are invited to
part_room(name, resp) ==
    LET joined == part_room_in(Rooms, name, resp)
        invited == part_room_in(Invites, name, resp)
    IN  IF joined.ret # NotFound THEN joined
        ELSE IF invited.ret = NotFound
             THEN [ret |-> << "room ", name, " not found" >>,
                   calls |-> << >>]
             ELSE invited

\* list_room_users over the matching rooms: the members of each, up to the
\* first room whose joined_members fails.  resps[i] is what the call for the
\* i-th matching room ends with.
RECURSIVE list_users_from(_, _, _)
list_users_from(found, resps, i) ==
    IF i > Len(found) THEN [ret |-> << >>, calls |-> << >>]
    ELSE LET call == [call |-> "joined_members", name |-> found[i].room_id,
                      ret |-> resps[i]]
             rest == list_users_from(found, resps, i + 1)
         IN  IF resps[i] # "JoinedMembersResponse"
             THEN [ret |-> << >>, calls |-> << call >>]
             ELSE [ret |-> [k \in DOMAIN Members |->
                               << Members[k].user_id,
                                  escape_name(Members[k].display_name),
                                  "join" >>] \o rest.ret,
                   calls |-> << call >> \o rest.calls]

list_room_users(name, resps) ==
    list_users_from(Matching(Rooms, name), resps, 1)

\* invite_room over the matching joined rooms, up to the first failure
RECURSIVE invite_from(_, _, _)
invite_from(found, resps, i) ==
    IF i > Len(found) THEN [ret |-> << >>, calls |-> << >>]
    ELSE LET call == [call |-> "room_invite", name |-> found[i].room_id,
                      ret |-> resps[i]]
             rest == invite_from(found, resps, i + 1)
         IN  IF resps[i] = "RoomInviteError"
             THEN [ret |-> << resps[i] >>, calls |-> << call >>]
             ELSE [ret |-> rest.ret, calls |-> << call >> \o rest.calls]

invite_room(name, resps) == invite_from(Matching(Rooms, name), resps, 1)

\* the calls of one command, with the id of the command
CallsWithId(id, calls) ==
    [k \in DOMAIN calls |-> [id |-> id, call |-> calls[k].call,
                             name |-> calls[k].name, ret |-> calls[k].ret]]

\* if error != "": self.account.receive_msg(Message.error(error))
ErrorReply(id, text) ==
    IF text = << >> THEN << >>
    ELSE << [id |-> id, kind |-> "error", text |-> text] >>

\* one command of the copy was executed: the network calls it made and what
\* it handed to receive_msg
Executed(r, msgs) ==
    /\ execLog' = Append(execLog, Started(Head(batch)))
    /\ roomCalls' = roomCalls \o CallsWithId(Head(batch).id, r.calls)
    /\ inbox' = inbox \o msgs
    /\ batch' = Tail(batch)
    /\ UNCHANGED << running, status, queueVars, pc, roomIdx, tokenVars,
                    credFile, buddies, exc, batches, netLog, stopCalls,
                    sinceConnect, syncEnded, room_name, error >>
    /\ UNCHANGED outsideRooms

\* CHAT_PART: _chat_part(params[0])
ExecChatPart(resp) ==
    /\ pc = "exec"
    /\ batch # << >>
    /\ Head(batch).cmd = "CHAT_PART"
    /\ LET r == part_room(Head(batch).arg, resp)
       IN  Executed(r, ErrorReply(Head(batch).id, r.ret))

\* CHAT_USERS: _chat_users(params[0]), a chat_user message for every user
ExecChatUsers(resps) ==
    /\ pc = "exec"
    /\ batch # << >>
    /\ Head(batch).cmd = "CHAT_USERS"
    /\ LET r == list_room_users(Head(batch).arg, resps)
       IN  Executed(r, [k \in DOMAIN r.ret |->
                           [id |-> Head(batch).id, kind |-> "chat_user",
                            room |-> Head(batch).arg, user |-> r.ret[k][1],
                            name |-> r.ret[k][2], state |-> r.ret[k][3]]])

\* CHAT_INVITE: _chat_invite(params[0], params[1])
ExecChatInvite(resps) ==
    /\ pc = "exec"
    /\ batch # << >>
    /\ Head(batch).cmd = "CHAT_INVITE"
    /\ LET r == invite_room(Head(batch).arg, resps)
       IN  Executed(r, ErrorReply(Head(batch).id, r.ret))

----------------------------------------------------------------------------
\* the event callbacks, called by sync_forever: MatrixClient.message_callback
\* and member_callback, with the handlers BackendClient._message and
\* _membership_event.  Timestamps are left out of the records.

\* self.get_user(), and somebody else
User == "@me:hs"

Senders == {User, "@bob:hs"}

\* the room messages of a sync response: sender, transaction id ("" for
\* none), class of the event, body
MessageEvents ==
    [kind : {"message"}, sender : Senders, transaction_id : {"", "txn1"},
     type : {"RoomMessageText", "RoomMessageEmote"}, body : {"hi"},
     room_id : {"!a:hs"}]

\* event.membership, as the server sends it
Memberships == {"invite", "join", "leave", "ban"}

\* the membership events of a sync response: Alice is the sender
\* (room.user_name(event.sender)), Bob the displayname of event.content
MemberEvents ==
    [kind : {"member"}, membership : Memberships, sender : {"@alice:hs"},
     user_name : {"Alice"}, displayname : {"Bob"}, room_id : {"!a:hs"},
     room_name : {"Team"}]

UpdateTokenSkipped(new) == UNCHANGED << mc_sync_token, tokenFile >>

\* self._update_sync_token() with new = self.client.next_batch: the token is
\* assigned first, then the file is written
UpdateToken(new) ==
    /\ mc_sync_token' = new
    /\ IF mc_sync_token = new
       THEN UNCHANGED tokenFile
       ELSE \E written \in BOOLEAN : tokenFile' = WriteToken(new, written)

FilteredOwnAlways(ev) == filter_own /\ ev.sender = User

\* if get_filter_own() and event.sender == self.get_user():
\*     if event.transaction_id: return
Filtered(ev) == filter_own /\ ev.sender = User /\ ev.transaction_id # ""

\* the isinstance chain: the text of the message, in its parts
MessageText(ev) ==
    IF ev.type = "RoomMessageEmote"
    THEN << "*** posted emote: ", ev.body, " ***" >>
    ELSE << ev.body >>

\* Message.chat_msg(account, tstamp, sender, room_id, msg), and the same
\* format filled by _membership_event
chat_msg(sender, room_id, msg) ==
    [id |-> 0, kind |-> "chat_msg", room |-> room_id, sender |-> sender,
     text |-> msg]

\* what message_callback hands to _message: nothing for a filtered message,
\* the sender of an own message rewritten
MessageRecords(ev) ==
    IF Filtered(ev) THEN << >>
    ELSE << chat_msg(IF ev.sender = User THEN "<self>" ELSE ev.sender,
                     ev.room_id, MessageText(ev)) >>

\* message_callback, and _message for a message that is not filtered
MessageCallback(ev) ==
    /\ pc = "sync_forever"
    /\ Len(events) < MaxEvents
    /\ \E t \in NextTokens : next_batch' = t /\ UpdateToken(t)
    /\ events' = Append(events, [ev |-> ev, at |-> Len(inbox),
                                 raised |-> "none"])
    /\ inbox' = inbox \o MessageRecords(ev)
    /\ UNCHANGED << running, status, queueVars, pc, batch, roomIdx, sync_token,
                    credFile, buddies, exc, batches, execLog, netLog,
                    stopCalls, sinceConnect, syncEnded, settings, filter_own >>
    /\ UNCHANGED outsideEvents

\* Message.chat_user(account, room_id, user_id, user_name, state)
chat_user(room_id, user_id, user_name, state) ==
    [id |-> 0, kind |-> "chat_user", room |-> room_id, user |-> user_id,
     name |-> user_name, state |-> state]

\* invited_user of member_callback
InvitedUser(ev) ==
    IF ev.membership \in {"invite", "join"} THEN ev.displayname ELSE ""

\* _membership_event binds user_msg and msg for these event types only
Bound(event_type) == event_type \in {"invite", "join", "leave"}

\* user_msg of _membership_event
UserMsg(ev) ==
    CASE ev.membership = "invite" ->
             chat_user(ev.room_id, InvitedUser(ev), InvitedUser(ev),
                       ev.membership)
      [] ev.membership = "join" ->
             chat_user(ev.room_id, ev.sender, InvitedUser(ev), ev.membership)
      [] ev.membership = "leave" ->
             chat_user(ev.room_id, ev.sender, ev.user_name, ev.membership)

JoinMsgOfSender(sender_name, invited_user, room) ==
    << "*** ", sender_name, " joined ", room, ". ***" >>

\* "*** {} joined {}. ***".format(invited_user, room_name)
JoinMsg(sender_name, invited_user, room) ==
    << "*** ", invited_user, " joined ", room, ". ***" >>

\* msg of _membership_event
MembershipMsg(ev) ==
    CASE ev.membership = "invite" ->
             << "*** ", ev.user_name, " invited ", InvitedUser(ev), " to ",
                ev.room_name, ". ***" >>
      [] ev.membership = "join" ->
             JoinMsg(ev.user_name, InvitedUser(ev), ev.room_name)
      [] ev.membership = "leave" ->
             << "*** ", ev.user_name, " left ", ev.room_name, ". ***" >>

\* if self.settings.membership_user_msg: receive_msg(user_msg)
\* if self.settings.membership_message_msg: receive_msg(formatted_msg)
MembershipRecords(ev) ==
    (IF settings.membership_user_msg THEN << UserMsg(ev) >> ELSE << >>)
        \o (IF settings.membership_message_msg
            THEN << chat_msg(ev.sender, ev.room_id, MembershipMsg(ev)) >>
            ELSE << >>)

\* member_callback and _membership_event.  For an event type that binds
\* neither msg nor user_msg, client.py:124 raises UnboundLocalError: it leaves
\* the callback and sync_forever, and sync_task sets the status offline
MemberCallback(ev) ==
    /\ pc = "sync_forever"
    /\ Len(events) < MaxEvents
    /\ \E t \in NextTokens : next_batch' = t /\ UpdateToken(t)
    /\ IF Bound(ev.membership)
       THEN /\ inbox' = inbox \o MembershipRecords(ev)
            /\ events' = Append(events, [ev |-> ev, at |-> Len(inbox),
                                         raised |-> "none"])
            /\ UNCHANGED << status, pc, syncEnded >>
       ELSE /\ events' = Append(events, [ev |-> ev, at |-> Len(inbox),
                                         raised |-> "UnboundLocalError"])
            /\ status' = StatusAfterSyncTask("exception", status)
            /\ pc' = "close"
            /\ syncEnded' = TRUE
            /\ UNCHANGED inbox
    /\ UNCHANGED << running, queueVars, batch, roomIdx, sync_token, credFile,
                    buddies, exc, batches, execLog, netLog, stopCalls,
                    sinceConnect, settings, filter_own >>
    /\ UNCHANGED outsideEvents

----------------------------------------------------------------------------
\* the two callbacks step by step: _update_sync_token first, then the filter
\* and the handler, and the end of the process in between

\* message_callback or member_callback is called with the event and has
\* returned from self._update_sync_token()
CallbackBegins(ev) ==
    /\ pc = "sync_forever"
    /\ Len(events) < MaxEvents
    /\ \E t \in NextTokens : next_batch' = t /\ UpdateToken(t)
    /\ events' = Append(events, [ev |-> ev, at |-> Len(inbox),
                                 raised |-> "pending"])
    /\ pc' = "callback"
    /\ UNCHANGED << running, status, queueVars, batch, roomIdx, sync_token,
                    credFile, buddies, exc, histVars, sinceConnect, syncEnded,
                    settings, filter_own >>
    /\ UNCHANGED outsideEvents

\* the event of the callback under way
Pending == events[Len(events)].ev

\* the entry of the callback under way, with how the callback ended
Ended_as(how) == [events EXCEPT ![Len(events)].raised = how]

\* the rest of the callback: the filter and the handler
CallbackDelivers ==
    /\ pc = "callback"
    /\ IF Pending.kind = "message"
       THEN /\ inbox' = inbox \o MessageRecords(Pending)
            /\ events' = Ended_as("none")
            /\ pc' = "sync_forever"
            /\ UNCHANGED << status, syncEnded >>
       ELSE IF Bound(Pending.membership)
       THEN /\ inbox' = inbox \o MembershipRecords(Pending)
            /\ events' = Ended_as("none")
            /\ pc' = "sync_forever"
            /\ UNCHANGED << status, syncEnded >>
       ELSE /\ events' = Ended_as("UnboundLocalError")
            /\ status' = StatusAfterSyncTask("exception", status)
            /\ pc' = "close"
            /\ syncEnded' = TRUE
            /\ UNCHANGED inbox
    /\ UNCHANGED << running, queueVars, batch, roomIdx, tokenVars, credFile,
                    buddies, exc, batches, execLog, netLog, stopCalls,
                    sinceConnect, settings, filter_own >>
    /\ UNCHANGED outsideEvents

\* the process ends after _update_sync_token and before the handler
Crash ==
    /\ pc = "callback"
    /\ events' = Ended_as("crash")
    /\ pc' = "crashed"
    /\ UNCHANGED << running, status, queueVars, batch, roomIdx, tokenVars,
                    credFile, buddies, exc, histVars, sinceConnect, syncEnded,
                    settings, filter_own >>
    /\ UNCHANGED outsideEvents

\* the process is started again and is in sync_forever: __init__ has loaded
\* the token of the file, sync_forever was given it as since
Restart ==
    /\ pc = "crashed"
    /\ \E t \in LoadedTokens : mc_sync_token' = t /\ next_batch' = t
    /\ pc' = "sync_forever"
    /\ UNCHANGED << running, status, queueVars, batch, roomIdx, sync_token,
                    tokenFile, credFile, buddies, exc, histVars, sinceConnect,
                    syncEnded, settings, filter_own, events >>
    /\ UNCHANGED outsideEvents

----------------------------------------------------------------------------
\* update_sync_token(old, new), then load_sync_token, on the token file

\* sync_token = self.update_sync_token(old, new)
CallUpdateSyncToken(written) ==
    /\ trip.step = "start"
    /\ LET r == update_sync_token(trip.old, trip.new, tokenFile, written)
       IN  /\ tokenFile' = r.file
           /\ trip' = [trip EXCEPT !.step = "updated", !.ret = r.ret,
                                   !.wrote = r.wrote]
    /\ UNCHANGED << running, status, queueVars, pc, batch, roomIdx, sync_token,
                    mc_sync_token, next_batch, credFile, buddies, exc,
                    histVars, sinceConnect, syncEnded >>
    /\ UNCHANGED outsideTrip

\* self.load_sync_token()
CallLoadSyncToken(readable) ==
    /\ trip.step = "updated"
    /\ trip' = [trip EXCEPT !.step = "loaded",
                            !.read = IF readable THEN "ok" ELSE "failed",
                            !.loaded = load_sync_token(tokenFile, readable)]
    /\ UNCHANGED << running, status, queueVars, pc, batch, roomIdx, tokenVars,
                    credFile, buddies, exc, histVars, sinceConnect, syncEnded >>
    /\ UNCHANGED outsideTrip

----------------------------------------------------------------------------
\* BackendServer: the callbacks the framework dispatches, one at a time, and
\* the tasks of the sessions.  Of BackendClient the framework's callbacks use
\* start (the task of the session is spawned), stop (FlagAfterStop, then the
\* end of the task is awaited), handle_command and task.

\* the account has an entry in self.connections
Present(a) == \E i \in DOMAIN connections : connections[i] = a

RegisteredAlways(a) == TRUE

\* client = self.connections[account.aid] raises no KeyError
Registered(a) == \E i \in DOMAIN connections : connections[i] = a

\* del self.connections[account.aid]
Without(conns, a) == SelectSeq(conns, LAMBDA x : x # a)

\* the callback name, called for the account a, has ended with result
Ended(name, a, had, handed, result, before, after) ==
    [name |-> name, aid |-> a, had |-> had, handed |-> handed,
     result |-> result, before |-> before, after |-> after]

\* self.connections[account.aid] = client: a new key goes to the end of the
\* dict, the value of a key that is there is replaced
WithClient(conns, a) ==
    IF \E i \in DOMAIN conns : conns[i] = a THEN conns ELSE Append(conns, a)

\* add_account: for a matrix account the client is made, registered and
\* started.  The client an entry of the same id held before is not stopped:
\* if its task is running it goes on without an entry.
AddAccount(a) ==
    /\ cb = NoCall
    /\ IF a \in MatrixAccounts
       THEN /\ connections' = WithClient(connections, a)
            /\ session' = [session EXCEPT
                              ![a].task = "running",
                              ![a].running = TRUE,
                              ![a].lost = @ \/ session[a].task = "running"]
       ELSE UNCHANGED << connections, session >>
    /\ last' = Ended("add_account", a, FALSE, FALSE, "", connections,
                     connections')
    /\ UNCHANGED cb
    /\ UNCHANGED outsideServer

\* the callbacks that end in handle_command
CommandCallbacks == {"handle_command", "send_message", "chat_send"}

\* handle_command, also as send_message and chat_send call it: the command
\* is handed to the client unless the lookup raises KeyError
HandleCommand(name, a) ==
    /\ cb = NoCall
    /\ last' = Ended(name, a, Present(a), Registered(a), "", connections,
                     connections)
    /\ UNCHANGED << connections, session, cb >>
    /\ UNCHANGED outsideServer

\* client = self.connections[account.aid]; await client.stop(), up to the
\* flag; a KeyError leaves the callback
CallStop(name, a) ==
    /\ IF Registered(a)
       THEN /\ session' = [session EXCEPT ![a].running = FlagAfterStop(@)]
            /\ cb' = [name |-> name, aid |-> a, pc |-> "stop_wait", i |-> 0,
                      before |-> connections]
            /\ UNCHANGED last
       ELSE /\ last' = Ended(name, a, Present(a), FALSE, "KeyError",
                             connections, connections)
            /\ UNCHANGED << session, cb >>
    /\ UNCHANGED connections
    /\ UNCHANGED outsideServer

\* stop_task, up to the stop it awaits
StopTask(a) ==
    /\ cb = NoCall
    /\ CallStop("stop_task", a)

\* del_account, up to the stop it awaits
DelAccount(a) ==
    /\ cb = NoCall
    /\ CallStop("del_account", a)

\* what "await client.stop()" waits for
StopDone(a) == session[a].task # "running"

\* stop_task after the stop: return ""
StopTaskReturn ==
    /\ cb.name = "stop_task"
    /\ cb.pc = "stop_wait"
    /\ StopDone(cb.aid)
    /\ last' = Ended(cb.name, cb.aid, TRUE, FALSE, "", cb.before, connections)
    /\ cb' = NoCall
    /\ UNCHANGED << connections, session >>
    /\ UNCHANGED outsideServer

\* del_account after the stop: client.del_account() removes the token file
\* if it exists (an OSError of os.remove leaves the callback), then
\* del self.connections[account.aid]
DelAccountReturn(removed) ==
    /\ cb.name = "del_account"
    /\ cb.pc = "stop_wait"
    /\ StopDone(cb.aid)
    /\ IF session[cb.aid].token /\ ~removed
       THEN /\ last' = Ended(cb.name, cb.aid, TRUE, FALSE, "OSError",
                             cb.before, connections)
            /\ UNCHANGED << connections, session >>
       ELSE /\ session' = [session EXCEPT ![cb.aid].token = FALSE]
            /\ connections' = Without(connections, cb.aid)
            /\ last' = Ended(cb.name, cb.aid, TRUE, FALSE, "", cb.before,
                             connections')
    /\ cb' = NoCall
    /\ UNCHANGED outsideServer

\* based_interrupt and based_quit: before "for client in connections.values()"
CallBased(name) ==
    /\ cb' = [name |-> name, aid |-> 0, pc |-> "iter", i |-> 1,
              before |-> connections]
    /\ UNCHANGED << connections, session, last >>
    /\ UNCHANGED outsideServer

\* based_interrupt, up to its loop
BasedInterrupt ==
    /\ cb = NoCall
    /\ CallBased("based_interrupt")

\* based_quit, up to its loop
BasedQuit ==
    /\ cb = NoCall
    /\ CallBased("based_quit")

\* based_interrupt: the next client, await client.stop() up to the flag; or
\* return "" after the last one
InterruptNext ==
    /\ cb.name = "based_interrupt"
    /\ cb.pc = "iter"
    /\ IF cb.i <= Len(connections)
       THEN /\ session' = [session EXCEPT
                              ![connections[cb.i]].running = FlagAfterStop(@)]
            /\ cb' = [cb EXCEPT !.pc = "stop_wait", !.aid = connections[cb.i]]
            /\ UNCHANGED last
       ELSE /\ last' = Ended(cb.name, 0, TRUE, FALSE, "", cb.before,
                             connections)
            /\ cb' = NoCall
            /\ UNCHANGED session
    /\ UNCHANGED connections
    /\ UNCHANGED outsideServer

\* based_interrupt: the stop it awaits has returned
InterruptStopped ==
    /\ cb.name = "based_interrupt"
    /\ cb.pc = "stop_wait"
    /\ StopDone(cb.aid)
    /\ cb' = [cb EXCEPT !.pc = "iter", !.i = @ + 1, !.aid = 0]
    /\ UNCHANGED << connections, session, last >>
    /\ UNCHANGED outsideServer

TaskDoneAtOnce(a) == TRUE

\* what "await client.task" waits for
TaskDone(a) == session[a].task = "finished"

\* based_quit: the next client, assert client.task; await client.task; or
\* return "" after the last one
QuitNext ==
    /\ cb.name = "based_quit"
    /\ cb.pc = "iter"
    /\ IF cb.i <= Len(connections)
       THEN /\ TaskDone(connections[cb.i])
            /\ cb' = [cb EXCEPT !.i = @ + 1]
            /\ UNCHANGED last
       ELSE /\ last' = Ended(cb.name, 0, TRUE, FALSE, "", cb.before,
                             connections)
            /\ cb' = NoCall
    /\ UNCHANGED << connections, session >>
    /\ UNCHANGED outsideServer

\* how the task of a session ends: the loop finds the flag cleared, or an
\* exception leaves start
TaskEndings == {"stopped", "raised"}

TaskEnds(a, kind) ==
    /\ session[a].task = "running"
    /\ kind = "stopped" => ~session[a].running
    /\ session' = [session EXCEPT ![a].task = "finished"]
    /\ UNCHANGED << connections, cb, last >>
    /\ UNCHANGED outsideServer

\* the task of a client that lost its entry ends: an exception leaves start
LostTaskEnds(a) ==
    /\ session[a].lost
    /\ session' = [session EXCEPT ![a].lost = FALSE]
    /\ UNCHANGED << connections, cb, last >>
    /\ UNCHANGED outsideServer

\* the loop of a session calls load_sync_token, which creates the token file
SessionLoadsToken(a) ==
    /\ session[a].task = "running"
    /\ ~session[a].token
    /\ session' = [session EXCEPT ![a].token = TRUE]
    /\ UNCHANGED << connections, cb, last >>
    /\ UNCHANGED outsideServer

----------------------------------------------------------------------------
\* the specifications

FrontEnd ==
    \/ \E c \in Commands : EnqAcquire(c)
    \/ EnqAppend
    \/ EnqRelease
    \/ StopRequest
    \/ StopReturn

Loop ==
    \/ LoopTop
    \/ ClientStop

Connect ==
    \/ LoadSyncToken
    \/ ConnectBegin
    \/ \E outcome \in LoginOutcomes : Login(outcome)
    \/ \E written \in BOOLEAN : SaveCredentials(written)
    \/ \E raises \in BOOLEAN : CatchUpSync(raises)
    \/ Close

\* what the server makes of sync_forever: responses, and its end
SyncForever ==
    \/ SyncForeverIdle
    \/ SyncForeverEvent
    \/ \E kind \in SyncEnds : SyncTaskEnds(kind)

Tick ==
    \/ HQAcquire
    \/ HQCopy
    \/ HQClear
    \/ HQRelease
    \/ ExecSendMessage
    \/ SendRoom
    \/ SendReturn
    \/ ExecSetStatus
    \/ ExecGetStatus
    \/ HQReturn
    \/ UpdateBuddies
    \/ UpdateSyncToken
    \/ Sleep

\* the session from its construction
Next == FrontEnd \/ Loop \/ Connect \/ SyncForever

Spec == Init /\ [][Next]_vars

\* the session alone, its stop requested or not, with the logins counted
CountedConnect ==
    \/ LoadSyncToken
    \/ ConnectBegin
    \/ \E outcome \in LoginOutcomes : CountedLogin(outcome)
    \/ \E written \in BOOLEAN : SaveCredentials(written)
    \/ \E raises \in BOOLEAN : CatchUpSync(raises)
    \/ Close

NextLogin ==
    StopRequest \/ StopReturn \/ Loop \/ CountedConnect \/ SyncForever

SpecLogin == Init /\ [][NextLogin]_vars

\* the loop at its top with the session online: the branch of client.py:85-91
InitQueue ==
    /\ running = TRUE
    /\ status = "online"
    /\ queue = << >>
    /\ lock = "none"
    /\ fpc = "idle"
    /\ fcmd = NoCmd
    /\ pc = "loop_top"
    /\ batch = << >>
    /\ roomIdx = 0
    /\ sync_token = 0
    /\ tokenFile = 0
    /\ mc_sync_token \in Tokens
    /\ next_batch = mc_sync_token
    /\ credFile = TRUE
    /\ buddies = << >>
    /\ exc = "none"
    /\ enqLog = << >>
    /\ batches = << >>
    /\ execLog = << >>
    /\ netLog = << >>
    /\ inbox = << >>
    /\ stopCalls = 0
    /\ sinceConnect = "none"
    /\ syncEnded = FALSE
    /\ ExtInit

NextQueue == FrontEnd \/ Loop \/ Tick

SpecQueue == InitQueue /\ [][NextQueue]_vars

\* the session thread runs on: every await of start and connect returns or
\* raises, except sync_forever, which goes on for as long as the server answers
SessionStep == Loop \/ Connect

FairSpec == Spec /\ WF_vars(SessionStep)

\* the copies handle_queue can hold when only CHAT_JOIN commands were sent
JoinBatches ==
    UNION { [1 .. n -> [cmd : {"CHAT_JOIN"}, arg : ChatNames]] :
            n \in 1 .. MaxJoins }

\* the copy b with the ids enqueue_command gave its tuples
Numbered(b) ==
    [i \in DOMAIN b |-> [id |-> i, cmd |-> b[i].cmd, arg |-> b[i].arg]]

\* handle_queue has released the lock, the session online, CHAT_JOIN commands
\* in the copy it took
InitRooms ==
    /\ running = TRUE
    /\ status = "online"
    /\ queue = << >>
    /\ lock = "none"
    /\ fpc = "idle"
    /\ fcmd = NoCmd
    /\ pc = "exec"
    /\ \E b \in JoinBatches :
          /\ batch = Numbered(b)
          /\ enqLog = Numbered(b)
          /\ batches = << Numbered(b) >>
    /\ roomIdx = 0
    /\ sync_token = 0
    /\ tokenFile = 0
    /\ mc_sync_token = 0
    /\ next_batch = 0
    /\ credFile = TRUE
    /\ buddies = << >>
    /\ exc = "none"
    /\ execLog = << >>
    /\ netLog = << >>
    /\ inbox = << >>
    /\ stopCalls = 0
    /\ sinceConnect = "none"
    /\ syncEnded = FALSE
    /\ ExtInit

ChatJoin ==
    \/ ExecChatJoin
    \/ \E resp \in JoinOutcomes : Join(resp)
    \/ \E resp \in CreateOutcomes : CreateRoom(resp)
    \/ ChatJoinReturn

NextRooms == ChatJoin \/ HQReturn

SpecRooms == InitRooms /\ [][NextRooms]_vars

\* the copies handle_queue can hold when commands that name a room were sent
ChatCmds == {"SEND_MESSAGE", "CHAT_PART", "CHAT_USERS", "CHAT_INVITE"}

ChatBatches ==
    UNION { [1 .. n -> [cmd : ChatCmds, arg : ChatTargets]] :
            n \in 1 .. MaxChats }

\* handle_queue has released the lock, the session online, commands that
\* name a room in the copy it took
InitChats ==
    /\ running = TRUE
    /\ status = "online"
    /\ queue = << >>
    /\ lock = "none"
    /\ fpc = "idle"
    /\ fcmd = NoCmd
    /\ pc = "exec"
    /\ \E b \in ChatBatches :
          /\ batch = Numbered(b)
          /\ enqLog = Numbered(b)
          /\ batches = << Numbered(b) >>
    /\ roomIdx = 0
    /\ sync_token = 0
    /\ tokenFile = 0
    /\ mc_sync_token = 0
    /\ next_batch = 0
    /\ credFile = TRUE
    /\ buddies = << >>
    /\ exc = "none"
    /\ execLog = << >>
    /\ netLog = << >>
    /\ inbox = << >>
    /\ stopCalls = 0
    /\ sinceConnect = "none"
    /\ syncEnded = FALSE
    /\ ExtInit

\* what the calls for the matching rooms end with, one outcome per room
PerRoom(outcomes) == [1 .. Len(Rooms) -> outcomes]

ChatCommand ==
    \/ \E resp \in LeaveOutcomes : ExecChatPart(resp)
    \/ \E resps \in PerRoom(MembersOutcomes) : ExecChatUsers(resps)
    \/ \E resps \in PerRoom(InviteOutcomes) : ExecChatInvite(resps)

SendMessage == ExecSendMessage \/ SendRoom \/ SendReturn

NextChats == ChatCommand \/ SendMessage \/ HQReturn

SpecChats == InitChats /\ [][NextChats]_vars

\* sync_forever is running: the session online, the client constructed with
\* its settings, the filter_own option of the configuration either way
InitEvents ==
    /\ running = TRUE
    /\ status = "online"
    /\ queue = << >>
    /\ lock = "none"
    /\ fpc = "idle"
    /\ fcmd = NoCmd
    /\ pc = "sync_forever"
    /\ batch = << >>
    /\ roomIdx = 0
    /\ sync_token = 0
    /\ tokenFile = 0
    /\ mc_sync_token = 0
    /\ next_batch = 0
    /\ credFile = TRUE
    /\ buddies = << >>
    /\ exc = "none"
    /\ enqLog = << >>
    /\ batches = << >>
    /\ execLog = << >>
    /\ netLog = << >>
    /\ inbox = << >>
    /\ stopCalls = 0
    /\ sinceConnect = "none"
    /\ syncEnded = FALSE
    /\ NoJoin
    /\ NoTrip(0, 0)
    /\ NoServer
    /\ NoLogin
    /\ settings \in [membership_user_msg : BOOLEAN,
                     membership_message_msg : BOOLEAN]
    /\ filter_own \in BOOLEAN
    /\ events = << >>

Callbacks ==
    \/ \E ev \in MessageEvents : MessageCallback(ev)
    \/ \E ev \in MemberEvents : MemberCallback(ev)

NextEvents == Callbacks \/ SyncForeverIdle \/ Close

SpecEvents == InitEvents /\ [][NextEvents]_vars

CallbackSteps ==
    \/ \E ev \in MessageEvents \cup MemberEvents : CallbackBegins(ev)
    \/ CallbackDelivers

NextSteps == CallbackSteps \/ Crash \/ Restart \/ Close

\* the callbacks step by step, from the states of InitEvents
SpecSteps == InitEvents /\ [][NextSteps]_vars

\* a session, any token in its file, before update_sync_token(old, new)
InitTrip ==
    /\ running = TRUE
    /\ status = "online"
    /\ queue = << >>
    /\ lock = "none"
    /\ fpc = "idle"
    /\ fcmd = NoCmd
    /\ pc = "update_sync_token"
    /\ batch = << >>
    /\ roomIdx = 0
    /\ sync_token = 0
    /\ tokenFile \in Tokens
    /\ mc_sync_token = 0
    /\ next_batch = 0
    /\ credFile = TRUE
    /\ buddies = << >>
    /\ exc = "none"
    /\ enqLog = << >>
    /\ batches = << >>
    /\ execLog = << >>
    /\ netLog = << >>
    /\ inbox = << >>
    /\ stopCalls = 0
    /\ sinceConnect = "none"
    /\ syncEnded = FALSE
    /\ NoJoin
    /\ NoEvent
    /\ NoServer
    /\ NoLogin
    /\ \E old \in Tokens, new \in Tokens : NoTrip(old, new)

NextTrip ==
    \/ \E written \in BOOLEAN : CallUpdateSyncToken(written)
    \/ \E readable \in BOOLEAN : CallLoadSyncToken(readable)

SpecTrip == InitTrip /\ [][NextTrip]_vars

\* the server at its construction
InitServer == Init /\ tokenFile = 0 /\ credFile = TRUE

Dispatch ==
    \/ \E a \in Accounts : AddAccount(a)
    \/ \E name \in CommandCallbacks, a \in Accounts : HandleCommand(name, a)
    \/ \E a \in Accounts : StopTask(a)
    \/ \E a \in Accounts : DelAccount(a)
    \/ BasedInterrupt
    \/ BasedQuit

Resume ==
    \/ StopTaskReturn
    \/ \E removed \in BOOLEAN : DelAccountReturn(removed)
    \/ InterruptNext
    \/ InterruptStopped
    \/ QuitNext

Tasks ==
    \/ \E a \in MatrixAccounts, kind \in TaskEndings : TaskEnds(a, kind)
    \/ \E a \in MatrixAccounts : LostTaskEnds(a)
    \/ \E a \in MatrixAccounts : SessionLoadsToken(a)

NextServer == Dispatch \/ Resume \/ Tasks

SpecServer == InitServer /\ [][NextServer]_vars

----------------------------------------------------------------------------
\* the properties

Last(s) == s[Len(s)]

\* from Init the loop never reaches the branch of client.py:85-91
LoopNeverTicks == pc # "handle_queue"

\* C1: over every interleaving of enqueue_command with handle_queue, the
\* copies handle_queue took, one after the other and followed by the live
\* queue, are the tuples in the order they were enqueued: each tuple is in
\* one copy only, none is lost, and a copy keeps the order of submission.
\* Between the copy and the clearing of the queue, in the critical section,
\* the copies alone are all the tuples enqueued so far.
C1_EveryCommandInOneBatch ==
    IF pc = "hq_clear"
    THEN Concat(batches) = enqLog
    ELSE Concat(batches) \o queue = enqLog

C1_Witness ==
    /\ Len(batches) >= 2
    /\ \E i \in DOMAIN batches : Len(batches[i]) >= 2

\* C2: a command in the queue of a running session is executed in the end
\* (left aside the runs that the stop of the session or an exception out of
\* start ends).
C2_NoCommandDropped ==
    (queue # << >> /\ running)
        ~> (queue = << >> \/ ~running \/ pc = "raised")

\* C3: the commands start in the order of their submission, over all the
\* drain cycles of the run.
C3_ExecutionInSubmissionOrder ==
    IsPrefix(Ids(execLog), Ids(enqLog))

C3_Witness ==
    /\ Len(batches) >= 2
    /\ Len(execLog) > Len(batches[1])
    /\ pc = "send"

\* C4: the loop of start has ended only if the stop was requested.
C4_OnlyStopEndsLoop ==
    pc \in {"stop", "done", "raised"} => ~running

\* C5: once sync_forever has ended, by a return or by an exception, the
\* status is offline and the loop goes on to load the token and to call
\* connect again; it leaves the loop only if the stop was requested.
C5_SyncEndReconnects ==
    syncEnded =>
        /\ status = "offline"
        /\ pc \in {"close", "loop_top", "load_token", "connect", "stop", "done"}
        /\ pc \in {"stop", "done"} => ~running

C5_Witness ==
    syncEnded /\ pc = "connect" /\ running

\* C6: connect is not called again after it returned unless the loop has
\* waited in between.
C6_BackoffBetweenConnects ==
    pc = "connect" => sinceConnect # "returned"

\* C7: once the stop is requested the loop ends and MatrixClient.stop is
\* called (left aside the runs that an exception out of start ends).
C7_StopTerminates ==
    (~running) ~> (pc = "done" \/ pc = "raised")

\* what stop may not change on a session that is stopped already
SessionState ==
    << running, status, queue, lock, pc, batch, roomIdx, sync_token, tokenFile,
       mc_sync_token, next_batch, credFile, buddies, exc >>

\* C8: a stop called after an earlier stop has returned changes nothing of
\* the session, neither when it is called nor when it returns, and it finds
\* the loop ended: it does not wait.
C8_StopIdempotent ==
    /\ [][(stopCalls >= 1 /\ fpc = "idle" /\ fpc' = "stop_wait")
             => SessionState' = SessionState]_vars
    /\ [][(stopCalls >= 2 /\ fpc = "stop_wait" /\ fpc' = "idle")
             => SessionState' = SessionState]_vars
    /\ [](stopCalls >= 2 /\ fpc = "stop_wait" => pc \in {"done", "raised"})

C8_Witness ==
    stopCalls = 2 /\ fpc = "idle" /\ pc = "done"

\* the command of execLog entry e made a room_send that raised
FailedSend(e) ==
    /\ e.cmd = "SEND_MESSAGE"
    /\ \E k \in DOMAIN netLog :
          netLog[k].id = e.id /\ netLog[k].res = "LocalProtocolError"

\* C9: a SendMessage that started while the status was offline made no
\* room_send, gave the front-end no message and raised nothing.
C9_OfflineSendNoNetwork ==
    \A i \in DOMAIN execLog :
        (execLog[i].cmd = "SEND_MESSAGE" /\ execLog[i].st = "offline") =>
            /\ \A k \in DOMAIN netLog : netLog[k].id # execLog[i].id
            /\ \A k \in DOMAIN inbox : inbox[k].id # execLog[i].id
            /\ exc = "none"

C9_Witness ==
    /\ pc = "exec"
    /\ \E i \in DOMAIN execLog :
          execLog[i].cmd = "SEND_MESSAGE" /\ execLog[i].st = "offline"

CallsOf(id, call) ==
    SelectSeq(roomCalls, LAMBDA e : e.id = id /\ e.call = call)

\* a room id of the form !...:...
IsRoomIdForm(name) == StartsWithBang(name) /\ HasColon(name)

\* join_room has returned to _chat_join and its join call had failed
JoinFailedFor(c) ==
    /\ pc = "chat_join"
    /\ CallsOf(c.id, "join") # << >>
    /\ CallsOf(c.id, "join")[1].ret = "JoinError"

\* create_room was called once for the command c, with name, and join_room
\* returned what it returned
CreatedOnce(c, name) ==
    /\ Len(CallsOf(c.id, "room_create")) = 1
    /\ CallsOf(c.id, "room_create")[1].name = name
    /\ error = CallsOf(c.id, "room_create")[1].ret

\* C11 as stated: join_room called with a name that is not of the form
\* !...:..., the join failed: create_room is called once with that same name
\* and join_room returns its result.
C11_FallbackWithSameName ==
    (JoinFailedFor(Head(batch)) /\ ~IsRoomIdForm(Head(batch).arg)) =>
        CreatedOnce(Head(batch), Head(batch).arg)

\* C11: join_room unescapes the name first.  When the unescaped name is not
\* of the form !...:... and the join failed, create_room is called once, with
\* the unescaped name (the name the join was tried with), and join_room
\* returns its result; no command makes more than one room_create call.
C11_FallbackWithUnescapedName ==
    /\ \A i \in DOMAIN execLog :
          Len(CallsOf(execLog[i].id, "room_create")) <= 1
    /\ (JoinFailedFor(Head(batch))
            /\ ~IsRoomIdForm(unescape_name(Head(batch).arg))) =>
           /\ CreatedOnce(Head(batch), unescape_name(Head(batch).arg))
           /\ CallsOf(Head(batch).id, "join")[1].name =
                  unescape_name(Head(batch).arg)

C11_Witness ==
    /\ JoinFailedFor(Head(batch))
    /\ Head(batch).arg = "My%20Room"
    /\ CreatedOnce(Head(batch), "My Room")
    /\ error = "RoomCreateError"

\* what account.receive_msg was given by the callback of events[i]
Delivered(i) ==
    SubSeq(inbox, events[i].at + 1,
           IF i < Len(events) THEN events[i + 1].at ELSE Len(inbox))

\* events[i] is a room message of the account's own user
OwnMessage(i) == events[i].ev.kind = "message" /\ events[i].ev.sender = User

\* one chat message, and no error in the callback
DeliveredOnce(i) ==
    /\ Len(Delivered(i)) = 1
    /\ Delivered(i)[1].kind = "chat_msg"
    /\ Delivered(i)[1].sender = "<self>"
    /\ events[i].raised = "none"

\* C12 as stated: a message of the own user is delivered once if it has no
\* transaction id, and not delivered if it has one.
C12_OwnMessageFilter ==
    \A i \in DOMAIN events :
        OwnMessage(i) =>
            IF events[i].ev.transaction_id = ""
            THEN DeliveredOnce(i)
            ELSE Delivered(i) = << >>

\* C12: with the option filter_own set, a message of the own user is
\* delivered once if it has no transaction id and not delivered if it has
\* one; with the option not set it is delivered once in both cases.
C12_OwnMessageFilterIfOption ==
    \A i \in DOMAIN events :
        OwnMessage(i) =>
            IF filter_own /\ events[i].ev.transaction_id # ""
            THEN Delivered(i) = << >>
            ELSE DeliveredOnce(i)

C12_Witness ==
    /\ filter_own
    /\ Len(events) = 2
    /\ OwnMessage(1) /\ events[1].ev.transaction_id = "txn1"
    /\ OwnMessage(2) /\ events[2].ev.transaction_id = ""
    /\ Len(inbox) = 1

\* events[i] is a membership event of the given event type
MemberEvent(i, membership) ==
    events[i].ev.kind = "member" /\ events[i].ev.membership = membership

\* the records of one kind ("chat_user", "chat_msg") among Delivered(i)
RecordsOf(i, kind) == SelectSeq(Delivered(i), LAMBDA r : r.kind = kind)

\* C13: for a join with both settings on, two records are delivered: the
\* roster record with the state join for Bob in the room, then the message
\* "*** Bob joined Team. ***".  For invite, join and leave, the roster record
\* is delivered (once) exactly if membership_user_msg is set and the message
\* (once) exactly if membership_message_msg is set.
C13_MembershipRecords ==
    \A i \in DOMAIN events :
        /\ (MemberEvent(i, "join") /\ settings.membership_user_msg
                /\ settings.membership_message_msg) =>
               /\ Len(Delivered(i)) = 2
               /\ Delivered(i)[1].kind = "chat_user"
               /\ Delivered(i)[1].state = "join"
               /\ Delivered(i)[1].name = "Bob"
               /\ Delivered(i)[1].room = "!a:hs"
               /\ Delivered(i)[2].kind = "chat_msg"
               /\ Delivered(i)[2].room = "!a:hs"
               /\ Delivered(i)[2].text =
                      << "*** ", "Bob", " joined ", "Team", ". ***" >>
        /\ \A m \in {"invite", "join", "leave"} :
               MemberEvent(i, m) =>
                   /\ Len(RecordsOf(i, "chat_user")) =
                          (IF settings.membership_user_msg THEN 1 ELSE 0)
                   /\ Len(RecordsOf(i, "chat_msg")) =
                          (IF settings.membership_message_msg THEN 1 ELSE 0)
                   /\ \A k \in DOMAIN Delivered(i) :
                          Delivered(i)[k].room = "!a:hs"
                   /\ events[i].raised = "none"

C13_Witness ==
    /\ Len(events) = 2
    /\ MemberEvent(1, "join")
    /\ MemberEvent(2, "leave")
    /\ settings.membership_user_msg
    /\ settings.membership_message_msg
    /\ Len(inbox) = 4

\* C14: a membership event of another type than invite, join, leave delivers
\* no record and raises nothing in the callback.
C14_UnknownMembershipIsNoOp ==
    \A i \in DOMAIN events :
        (events[i].ev.kind = "member"
             /\ events[i].ev.membership \notin {"invite", "join", "leave"}) =>
            Delivered(i) = << >> /\ events[i].raised = "none"

C16_TokenFileFollowsSync ==
    (pc = "sync_forever" /\ tokenFile = mc_sync_token) =>
        tokenFile = next_batch

\* C17: no OSError of a file write ends start, and the token the client
\* holds is the token in its file: a failed write leaves the token as it
\* was, so that the next callback writes again.
C17_WriteFailureRecovered ==
    /\ exc # "OSError"
    /\ mc_sync_token = tokenFile

\* C18: handle_command, send_message, chat_send, stop_task and del_account,
\* called for an account without an entry in connections, return "" and
\* leave connections as it was.
C18_UnknownAccountIsNoOp ==
    (last.name \in {"handle_command", "send_message", "chat_send",
                    "stop_task", "del_account"} /\ ~last.had) =>
        /\ last.result = ""
        /\ last.after = last.before
        /\ ~last.handed

----------------------------------------------------------------------------
\* the buddy list

\* the entries of list b for room r with status st
EntriesFor(b, r, st) ==
    {k \in DOMAIN b : b[k][1] = r.room_id /\ b[k][3] = st}

OneEntryEach(b) ==
    /\ Len(b) = Len(Rooms) + Len(Invites)
    /\ \A i \in DOMAIN Rooms :
          Cardinality(EntriesFor(b, Rooms[i], "GROUP_CHAT")) = 1
    /\ \A i \in DOMAIN Invites :
          Cardinality(EntriesFor(b, Invites[i], "GROUP_CHAT_INVITE")) = 1

Refreshed == pc = "update_buddies" /\ pc' = "update_sync_token"

\* C21: a refresh (update_buddies) leaves the buddy list empty when the
\* session is offline at the refresh; otherwise the list it leaves has
\* exactly one GROUP_CHAT entry per joined room and one GROUP_CHAT_INVITE
\* entry per pending invite, and nothing else
C21_BuddyListRebuilt ==
    [][Refreshed =>
          IF status = "offline" THEN buddies' = << >>
          ELSE OneEntryEach(buddies')]_vars

\* a refresh of an online session has filled the list, rooms and invite
C21_Witness ==
    /\ pc = "update_sync_token"
    /\ status = "online"
    /\ OneEntryEach(buddies)
    /\ execLog # << >>

----------------------------------------------------------------------------
\* commands that name a room

\* the command c of the copy was executed
Done(c) == \A k \in DOMAIN batch : batch[k].id # c.id

\* the room has the target as display name or as id, the target taken as
\* given or unescaped
HasName(room, target) ==
    {target, unescape_name(target)} \cap {room.display_name, room.room_id}
        # {}

JoinedMatch(c) == \E k \in DOMAIN Rooms : HasName(Rooms[k], c.arg)

InviteMatch(c) == \E k \in DOMAIN Invites : HasName(Invites[k], c.arg)

\* part and invite also look among the pending invites
Unresolved(c) ==
    /\ ~JoinedMatch(c)
    /\ c.cmd \in {"CHAT_PART", "CHAT_INVITE"} => ~InviteMatch(c)

ErrorsFor(c) ==
    SelectSeq(inbox, LAMBDA m : m.id = c.id /\ m.kind = "error")

\* C22: a SEND_MESSAGE, CHAT_PART, CHAT_USERS or CHAT_INVITE command whose
\* target room cannot be resolved gives the front-end exactly one error
\* message, and the message names the target
C22_UnresolvedTargetReported ==
    \A i \in DOMAIN enqLog :
        LET c == enqLog[i]
        IN  (c.cmd \in ChatCmds /\ Done(c) /\ Unresolved(c)) =>
                /\ Len(ErrorsFor(c)) = 1
                /\ \E k \in DOMAIN ErrorsFor(c)[1].text :
                      ErrorsFor(c)[1].text[k] = c.arg

\* the network calls of command c
RoomCallsOf(c) == SelectSeq(roomCalls, LAMBDA e : e.id = c.id)

CallOf(c) == IF c.cmd = "CHAT_PART" THEN "room_leave" ELSE "room_invite"

\* command c made its call for a room of the list that has the target
ActedOn(c, rooms) ==
    \E k \in DOMAIN RoomCallsOf(c) :
        /\ RoomCallsOf(c)[k].call = CallOf(c)
        /\ \E j \in DOMAIN rooms :
              /\ HasName(rooms[j], c.arg)
              /\ RoomCallsOf(c)[k].name = rooms[j].room_id

\* command c made a call and no call of it failed
Succeeded(c) ==
    /\ RoomCallsOf(c) # << >>
    /\ \A k \in DOMAIN RoomCallsOf(c) :
          RoomCallsOf(c)[k].ret \notin {"RoomLeaveError", "RoomInviteError"}

\* C23: part_room and invite_room act on a joined room that has the target
\* as name or id, else on a pending invite that has it; they return the
\* empty text exactly when they succeeded, else an error text
C23_PartAndInviteResolveInvites ==
    \A i \in DOMAIN enqLog :
        LET c == enqLog[i]
        IN  (c.cmd \in {"CHAT_PART", "CHAT_INVITE"} /\ Done(c)) =>
                /\ JoinedMatch(c) => ActedOn(c, Rooms)
                /\ (~JoinedMatch(c) /\ InviteMatch(c)) => ActedOn(c, Invites)
                /\ ErrorsFor(c) = << >> <=> Succeeded(c)

\* the same for part_room alone
PartResolvesInvites ==
    \A i \in DOMAIN enqLog :
        LET c == enqLog[i]
        IN  (c.cmd = "CHAT_PART" /\ Done(c)) =>
                /\ JoinedMatch(c) => ActedOn(c, Rooms)
                /\ (~JoinedMatch(c) /\ InviteMatch(c)) => ActedOn(c, Invites)
                /\ ErrorsFor(c) = << >> <=> Succeeded(c)
                /\ Unresolved(c) =>
                      /\ Len(ErrorsFor(c)) = 1
                      /\ \E k \in DOMAIN ErrorsFor(c)[1].text :
                            ErrorsFor(c)[1].text[k] = c.arg

----------------------------------------------------------------------------
\* login and the saved credentials

----------------------------------------------------------------------------
\* the connection status

ConnectionStatus == {"offline", "online"}

\* C25: the status of the session is offline or online in every state, and
\* every status message handed to the front-end reports one of the two
C25_StatusIsOfflineOrOnline ==
    /\ status \in ConnectionStatus
    /\ \A k \in DOMAIN inbox :
          inbox[k].kind = "status" => inbox[k].text \in ConnectionStatus

\* C26: the status goes from offline to online only in a step of connect,
\* the restore of the saved login or the login call
C26_OnlineOnlyByConnect ==
    [][(status = "offline" /\ status' = "online") =>
          pc \in {"connect", "login"}]_vars

----------------------------------------------------------------------------
\* the lock and the commands in progress

Executing == pc \in {"exec", "send"}

\* C27: handle_queue holds the lock only between its acquire and its
\* release, around the copy and the clearing, never while a command of the
\* copy is executed; a tuple appended by enqueue_command while the copy is
\* being executed goes to the live queue and leaves the copy as it is, and
\* the next copy handle_queue takes is the live queue
C27_LockNotHeldWhileExecuting ==
    /\ [](lock = "session" => pc \in {"hq_copy", "hq_clear", "hq_release"})
    /\ [](Executing => lock # "session")
    /\ [][(Executing /\ fpc = "acquired" /\ fpc' = "appended") =>
             /\ queue' = Append(queue, enqLog'[Len(enqLog')])
             /\ batch' = batch]_vars
    /\ [][(pc = "hq_copy" /\ pc' = "hq_clear") => batch' = queue]_vars

\* enqueue_command holds the lock and has appended its tuple to the live
\* queue while a send of the copy is in progress
C27_Witness ==
    /\ pc = "send"
    /\ batch # << >>
    /\ fpc = "appended"
    /\ lock = "front"
    /\ queue # << >>

----------------------------------------------------------------------------
\* the steps of connect

\* the step leaves the place at of connect
Leaves(at) == pc = at /\ pc' # at

\* the step enters the place at of connect
Enters(at) == pc # at /\ pc' = at

\* the token file and the cursor of the MatrixClient stay the same token
\* over the step, but for a callback whose write of the file failed
CursorIsPersisted ==
    tokenFile = mc_sync_token =>
        \/ tokenFile' = mc_sync_token'
        \/ mc_sync_token' # mc_sync_token /\ tokenFile' = tokenFile

----------------------------------------------------------------------------
\* the token and the delivery

\* the length of the inbox when the callback after the i-th event began, or
\* now
InboxAfter(i) == IF i < Len(events) THEN events[i + 1].at ELSE Len(inbox)

\* C29: in every callback, for a message (own and filtered or not) and for a
\* membership event, the token of the MatrixClient is the next_batch of the
\* response before anything is filtered or handed to the front-end, and the
\* file was written if the token changed (unless the write failed);
\* records reach the front-end only in the step after that; an event whose
\* callback the end of the process cut short after the token update is
\* never handed to the front-end
C29_TokenBeforeDelivery ==
    /\ [](pc = "callback" => mc_sync_token = next_batch)
    /\ [][Enters("callback") =>
             IF mc_sync_token' = mc_sync_token
             THEN tokenFile' = tokenFile
             ELSE tokenFile' \in {mc_sync_token', tokenFile}]_vars
    /\ [][inbox' # inbox => pc = "callback"]_vars
    /\ [](\A i \in DOMAIN events :
             events[i].raised = "crash" => InboxAfter(i) = events[i].at)

\* the process ended in the callback of an event after the new token was
\* written to the file, was started again and has since delivered another
\* event: the first event never reached the front-end
C29_Witness ==
    /\ Len(events) = 2
    /\ events[1].raised = "crash"
    /\ events[2].raised = "none"
    /\ events[1].at = 0
    /\ tokenFile = mc_sync_token
    /\ tokenFile > 0
    /\ Len(inbox) = 1

----------------------------------------------------------------------------
\* the registry and the running sessions

\* C30: every session that add_account started and that is still running is
\* the value of its account id in connections: the client of the id has an
\* entry, and no earlier client of the id runs on after a later add_account
\* took its entry; an account of another type has no entry and no session
C30_RegistryTracksRunningSessions ==
    /\ \A a \in MatrixAccounts :
          /\ session[a].task = "running" => Present(a)
          /\ ~session[a].lost
    /\ \A a \in Accounts \ MatrixAccounts :
          ~Present(a) /\ session[a].task = "none"

----------------------------------------------------------------------------
\* the room_send calls of one SEND_MESSAGE

\* the room_send calls made for the command with this id, in order
SendsOf(id) == SelectSeq(netLog, LAMBDA e : e.id = id)

\* C31: one SEND_MESSAGE command makes at most one room_send call, also when
\* several joined rooms have the destination as display name, and it makes no
\* further call after one that failed with LocalProtocolError
C31_OneRoomSendPerMessage ==
    \A i \in DOMAIN enqLog :
        /\ Len(SendsOf(enqLog[i].id)) <= 1
        /\ \A k \in DOMAIN SendsOf(enqLog[i].id) :
              SendsOf(enqLog[i].id)[k].res = "LocalProtocolError" =>
                  k = Len(SendsOf(enqLog[i].id))

\* the same without the limit of one call: no call follows a failed one
NoSendAfterError ==
    \A i \in DOMAIN enqLog :
        \A k \in DOMAIN SendsOf(enqLog[i].id) :
            SendsOf(enqLog[i].id)[k].res = "LocalProtocolError" =>
                k = Len(SendsOf(enqLog[i].id))

====
